---- MODULE Spec2Model ----
(***************************************************************************)
(* Model of the history-normalization and response-orchestration core of   *)
(* the chat client: mapHistory and cleanResponse (services/aiService.ts),  *)
(* triggerAIResponseForChat (App.tsx) and the ChatWindow turn selection    *)
(* (handleSend, triggerNextAI).                                            *)
(***************************************************************************)
EXTENDS Integers, Sequences, FiniteSets, TLC

VARIABLES
  mh,            \* harness of mapHistory: input, window and result
  cr,            \* harness of cleanResponse: input and results
  sp,            \* harness of the prefix stripping of triggerAIResponseForChat
  chats,         \* App state: the conversation list
  settings,      \* App state: which provider keys are configured
  activeChatId,  \* App state: id of the open conversation, or None
  draftSubChat,  \* App state: the uncommitted branch draft, or None
  win,           \* state of the mounted ChatWindow, or None
  calls,         \* the triggerAIResponseForChat calls that are suspended in an await
  netSent,       \* number of requests the last step sent to a provider
  nextId,        \* next fresh message id
  nBranch,       \* number of branch drafts created
  nIds,          \* number of conversations created, duplicated included
  lastCall,      \* the triggerAIResponseForChat invocation made by the last step, or None
  lastReply      \* the provider answer handled by the last step, or None

appVars == <<chats, settings, activeChatId, draftSubChat, win, calls, netSent,
             nextId, nBranch, nIds, lastCall, lastReply>>
vars == <<mh, cr, sp, appVars>>

(***************************************************************************)
(* Program constants.                                                      *)
(***************************************************************************)
MAX_HISTORY_MESSAGES == 40
MAX_HISTORY_CHARS == 12000

(***************************************************************************)
(* Bounds of the model.                                                    *)
(***************************************************************************)
\* longest freely chosen tail of a history given to mapHistory
MaxTail == 3

Providers == {"openai", "deepseek", "gemini"}

Min(a, b) == IF a < b THEN a ELSE b
Max(a, b) == IF a > b THEN a ELSE b

(***************************************************************************)
(* Texts.  A message text is modelled by its length in characters (chars)  *)
(* of which ws are leading/trailing whitespace; String.trim removes them.  *)
(***************************************************************************)
Text(n, w) == [chars |-> n, ws |-> w]
TextLength(t) == t.chars
Trim(t) == [chars |-> t.chars - t.ws, ws |-> 0]

TextSet == {Text(1, 0), Text(6000, 1), Text(MAX_HISTORY_CHARS + 1, 0)}

NoName == ""

\* String.toUpperCase on the author labels that occur
ToUpperCase(s) ==
  CASE s = "User" -> "USER"
    [] s = "Assistant" -> "ASSISTANT"
    [] s = "Bot" -> "BOT"
    [] OTHER -> s

Message(i, s, a, t) == [id |-> i, sender |-> s, authorName |-> a, text |-> t]

(***************************************************************************)
(* mapHistory, step 1: filter and window.                                  *)
(***************************************************************************)
FilterSystemMut(history) == history
FilterSystem(history) == SelectSeq(history, LAMBDA m : m.sender # "system")

\* Array.slice(-n)
SliceLastMut(s, n) == SubSeq(s, 1, Min(n, Len(s)))
SliceLast(s, n) == SubSeq(s, Max(Len(s) - n, 0) + 1, Len(s))

RECURSIVE WindowLoopGe(_, _, _, _)
WindowLoopGe(recent, i, totalChars, finalMessages) ==
  IF i < 1 THEN finalMessages
  ELSE IF Len(finalMessages) > 0
          /\ totalChars + TextLength(recent[i].text) >= MAX_HISTORY_CHARS
       THEN finalMessages
       ELSE WindowLoopGe(recent, i - 1, totalChars + TextLength(recent[i].text),
                         <<recent[i]>> \o finalMessages)

\* the for loop of lines 21-26: i runs from the last message backwards
RECURSIVE WindowLoop(_, _, _, _)
WindowLoop(recent, i, totalChars, finalMessages) ==
  IF i < 1 THEN finalMessages
  ELSE IF Len(finalMessages) > 0
          /\ totalChars + TextLength(recent[i].text) > MAX_HISTORY_CHARS
       THEN finalMessages
       ELSE WindowLoop(recent, i - 1, totalChars + TextLength(recent[i].text),
                       <<recent[i]>> \o finalMessages)

FinalMessages(history) ==
  LET recent == SliceLast(FilterSystem(history), MAX_HISTORY_MESSAGES)
  IN WindowLoop(recent, Len(recent), 0, <<>>)

(***************************************************************************)
(* mapHistory, step 2: author tagging and role mapping.  The content of a  *)
(* turn is a sequence of pieces: the tagged block of one message           *)
(* "--- SOURCE: L ---\n<text>\n--- END L ---", the separator "\n\n", or    *)
(* one of the repair markers.                                              *)
(***************************************************************************)
Piece(k, l, t, i) == [k |-> k, label |-> l, text |-> t, id |-> i]
Marker(k) == Piece(k, "", Text(0, 0), 0)

AuthorLabel(msg) ==
  IF msg.authorName # NoName THEN msg.authorName
  ELSE IF msg.sender = "user" THEN "User" ELSE "Assistant"

Role(msg, provider) ==
  IF provider = "gemini"
  THEN (IF msg.sender = "user" THEN "user" ELSE "model")
  ELSE (IF msg.sender = "user" THEN "user" ELSE "assistant")

MapMsg(msg, provider) ==
  [role |-> Role(msg, provider),
   content |-> <<Piece("block", ToUpperCase(AuthorLabel(msg)), Trim(msg.text), msg.id)>>]

Mapped(finalMessages, provider) ==
  [i \in 1..Len(finalMessages) |-> MapMsg(finalMessages[i], provider)]

\* number of characters of a piece / of a content string
PieceChars(p) ==
  CASE p.k = "block" -> 12 + Len(p.label) + 5 + p.text.chars + 9 + Len(p.label) + 4
    [] p.k = "sep" -> 2
    [] p.k = "prev" -> 20
    [] p.k = "follow" -> 23
    [] p.k = "dialogue" -> 20
    [] OTHER -> 0

RECURSIVE ContentChars(_)
ContentChars(c) == IF c = <<>> THEN 0 ELSE PieceChars(Head(c)) + ContentChars(Tail(c))

(***************************************************************************)
(* mapHistory, step 3: merging of equal adjacent roles and the two repair  *)
(* rules for the strict providers.                                         *)
(***************************************************************************)
Last(s) == s[Len(s)]
Front(s) == SubSeq(s, 1, Len(s) - 1)

\* the forEach of lines 46-53 (and of lines 82-88): a message of the role of
\* the last turn is joined to it, any other message opens a new turn
RECURSIVE MergeRoles(_, _)
MergeRoles(acc, mapped) ==
  IF mapped = <<>> THEN acc
  ELSE IF Len(acc) > 0 /\ Last(acc).role = Head(mapped).role
  THEN MergeRoles([acc EXCEPT ![Len(acc)].content = @ \o <<Marker("sep")>> \o Head(mapped).content],
                  Tail(mapped))
  ELSE MergeRoles(Append(acc, [role |-> Head(mapped).role, content |-> Head(mapped).content]),
                  Tail(mapped))

\* RULE 1 (lines 56-62): must start with 'user'
Rule1(strictHistory) ==
  IF Len(strictHistory) > 0 /\ strictHistory[1].role = "assistant"
  THEN <<[role |-> "user",
          content |-> <<Marker("prev")>> \o strictHistory[1].content]>>
       \o Tail(strictHistory)
  ELSE strictHistory

\* RULE 2 (lines 67-75): must end on 'user'
Rule2Mut(strictHistory) == strictHistory
Rule2Drop(strictHistory) ==
  IF Len(strictHistory) > 1 /\ Last(strictHistory).role = "assistant"
  THEN Front(strictHistory)
  ELSE IF Len(strictHistory) = 1 /\ strictHistory[1].role = "assistant"
  THEN <<[role |-> "user",
          content |-> <<Marker("dialogue")>> \o strictHistory[1].content]>>
  ELSE strictHistory
Rule2(strictHistory) ==
  IF Len(strictHistory) > 1 /\ Last(strictHistory).role = "assistant"
  THEN LET lastAssistantTurn == Last(strictHistory)
           rest == Front(strictHistory)
       IN [rest EXCEPT ![Len(rest)].content =
                          @ \o <<Marker("sep"), Marker("follow")>> \o lastAssistantTurn.content]
  ELSE IF Len(strictHistory) = 1 /\ strictHistory[1].role = "assistant"
  THEN <<[role |-> "user",
          content |-> <<Marker("dialogue")>> \o strictHistory[1].content]>>
  ELSE strictHistory

mapHistory(history, provider) ==
  IF Len(history) = 0 THEN <<>>
  ELSE LET mapped == Mapped(FinalMessages(history), provider)
       IN IF provider # "gemini"
          THEN Rule2(Rule1(MergeRoles(<<>>, mapped)))
          ELSE MergeRoles(<<>>, mapped)

(***************************************************************************)
(* Harness for mapHistory: a history and a provider are drawn, then the    *)
(* function is applied.  Histories are a run of short alternating messages *)
(* (long enough to cross the 40-message limit) followed by a free tail.    *)
(***************************************************************************)
PadLens == {0, MAX_HISTORY_MESSAGES - 2, MAX_HISTORY_MESSAGES - 1, MAX_HISTORY_MESSAGES}

PadMsg(i) ==
  IF i % 2 = 1 THEN Message(i, "ai", "Bot", Text(1, 0))
  ELSE Message(i, "user", NoName, Text(1, 0))

Pad(n) == [i \in 1..n |-> PadMsg(i)]

MsgKinds ==
  {[sender |-> "user", authorName |-> NoName, text |-> t] : t \in TextSet}
  \cup {[sender |-> "ai", authorName |-> "Bot", text |-> t] : t \in TextSet}
  \cup {[sender |-> "ai", authorName |-> NoName, text |-> Text(1, 0)],
        [sender |-> "system", authorName |-> NoName, text |-> Text(1, 0)]}

TailsOf(n) == [1..n -> MsgKinds]

Histories ==
  {Pad(p) \o [i \in 1..Len(t) |-> Message(p + i, t[i].sender, t[i].authorName, t[i].text)] :
     p \in PadLens, t \in UNION {TailsOf(n) : n \in 0..MaxTail}}

None == "none"

NoChat == [id |-> None]
NoCall == [outcome |-> None]
NoReply == [status |-> -1]
WinClosed == [mounted |-> FALSE, isTyping |-> FALSE, isAutoFlow |-> FALSE,
              selectedAuthorId |-> "user", senderPersonaId |-> "user", timer |-> FALSE]
\* the useState initial values of ChatWindow (lines 90-103)
WinFresh == [WinClosed EXCEPT !.mounted = TRUE]

\* the App part at rest, for the harnesses of the pure functions
AppIdle ==
  /\ chats = <<>>
  /\ settings = [openaiKey |-> FALSE, deepseekKey |-> FALSE]
  /\ activeChatId = None
  /\ draftSubChat = NoChat
  /\ win = WinClosed
  /\ calls = <<>>
  /\ netSent = 0
  /\ nextId = 1
  /\ nBranch = 0
  /\ nIds = 0
  /\ lastCall = NoCall
  /\ lastReply = NoReply

MhIdle == [pc |-> "idle", history |-> <<>>, provider |-> "gemini",
           finalMessages |-> <<>>, out |-> <<>>]
CrIdle == [pc |-> "idle", text |-> <<>>, once |-> <<>>, twice |-> <<>>]
SpIdle == [pc |-> "idle", text |-> <<>>, out |-> <<>>]

InitMap ==
  /\ mh \in {[pc |-> "input", history |-> h, provider |-> p,
              finalMessages |-> <<>>, out |-> <<>>] : h \in Histories, p \in Providers}
  /\ cr = CrIdle
  /\ sp = SpIdle
  /\ AppIdle

RunMapHistory ==
  /\ mh.pc = "input"
  /\ mh' = [mh EXCEPT !.pc = "done",
                      !.finalMessages = FinalMessages(mh.history),
                      !.out = mapHistory(mh.history, mh.provider)]
  /\ UNCHANGED <<cr, sp, appVars>>

NextMap == RunMapHistory

SpecMap == InitMap /\ [][NextMap]_vars

(***************************************************************************)
(* cleanResponse.  A response text is a sequence of tokens: "-" a hyphen,  *)
(* "sp" a blank, "nl" a line break, "SOURCE:" and "END" the two keywords   *)
(* in any letter case (the regular expressions carry the i flag), "x" any  *)
(* other character.                                                        *)
(***************************************************************************)
\* longest response text given to cleanResponse
MaxText == 5

Alphabet == {"-", "sp", "nl", "SOURCE:", "END", "x"}

IsWs(c) == c \in {"sp", "nl"}

\* first index >= i whose token is not a hyphen (greedy -+)
RECURSIVE HyphenRunEnd(_, _)
HyphenRunEnd(text, i) ==
  IF i <= Len(text) /\ text[i] = "-" THEN HyphenRunEnd(text, i + 1) ELSE i

\* first index >= i whose token is not whitespace (greedy \s*, which crosses lines)
RECURSIVE WsRunEnd(_, _)
WsRunEnd(text, i) ==
  IF i <= Len(text) /\ IsWs(text[i]) THEN WsRunEnd(text, i + 1) ELSE i

\* ^ and $ under the m flag, for the position in front of index i
AtLineStart(text, i) == i = 1 \/ text[i - 1] = "nl"
AtLineEnd(text, i) == i > Len(text) \/ text[i] = "nl"

\* -+\s*$ tried at index r: the index after the match, 0 when it fails.
\* \s* gives whitespace back until $ holds.
TailEnd(text, r) ==
  IF r > Len(text) \/ text[r] # "-" THEN 0
  ELSE LET e == HyphenRunEnd(text, r)
           w == WsRunEnd(text, e)
           ends == {j \in e..w : AtLineEnd(text, j)}
       IN IF ends = {} THEN 0 ELSE CHOOSE j \in ends : \A k \in ends : k <= j

\* .*? followed by -+\s*$ from index r: the lazy dot takes one more token
\* (never a line break) until the rest matches
RECURSIVE LazyFind(_, _)
LazyFind(text, r) ==
  IF r > Len(text) THEN 0
  ELSE IF TailEnd(text, r) # 0 THEN TailEnd(text, r)
  ELSE IF text[r] = "nl" THEN 0
  ELSE LazyFind(text, r + 1)

\* /^-+\s*<keyword>.*?-+\s*$/im tried at index i: the index after the match, or 0
MatchEnd(text, i, keyword) ==
  IF ~(AtLineStart(text, i) /\ i <= Len(text) /\ text[i] = "-") THEN 0
  ELSE LET q == WsRunEnd(text, HyphenRunEnd(text, i))
       IN IF q <= Len(text) /\ text[q] = keyword THEN LazyFind(text, q + 1) ELSE 0

\* String.replace(/.../gim, ""): matches found left to right in the original text
RECURSIVE ReplaceAll(_, _, _)
ReplaceAll(text, i, keyword) ==
  IF i > Len(text) THEN <<>>
  ELSE IF MatchEnd(text, i, keyword) # 0
       THEN ReplaceAll(text, MatchEnd(text, i, keyword), keyword)
       ELSE <<text[i]>> \o ReplaceAll(text, i + 1, keyword)

RECURSIVE TrimStart(_)
TrimStart(text) ==
  IF text # <<>> /\ IsWs(Head(text)) THEN TrimStart(Tail(text)) ELSE text

RECURSIVE TrimEnd(_)
TrimEnd(text) ==
  IF text # <<>> /\ IsWs(text[Len(text)]) THEN TrimEnd(SubSeq(text, 1, Len(text) - 1)) ELSE text

StringTrim(text) == TrimEnd(TrimStart(text))

cleanResponse(text) ==
  IF text = <<>> THEN <<>>
  ELSE StringTrim(ReplaceAll(ReplaceAll(text, 1, "SOURCE:"), 1, "END"))

(***************************************************************************)
(* Harness for cleanResponse: a text is drawn, the function is applied     *)
(* once and then to its own result.                                        *)
(***************************************************************************)
Texts == UNION {[1..n -> Alphabet] : n \in 0..MaxText}

InitClean ==
  /\ mh = MhIdle
  /\ sp = SpIdle
  /\ AppIdle
  /\ cr \in {[pc |-> "input", text |-> t, once |-> <<>>, twice |-> <<>>] : t \in Texts}

CleanOnce ==
  /\ cr.pc = "input"
  /\ cr' = [cr EXCEPT !.pc = "once", !.once = cleanResponse(cr.text)]
  /\ UNCHANGED <<mh, sp, appVars>>

CleanTwice ==
  /\ cr.pc = "once"
  /\ cr' = [cr EXCEPT !.pc = "twice", !.twice = cleanResponse(cr.once)]
  /\ UNCHANGED <<mh, sp, appVars>>

NextClean == CleanOnce \/ CleanTwice

SpecClean == InitClean /\ [][NextClean]_vars

(***************************************************************************)
(* triggerAIResponseForChat, lines 206-219: the prefixes of the responder  *)
(* are stripped from the text getAIResponse returned.  A text is a         *)
(* sequence of tokens: "[N]:" is `[${name}]:`, "N:" is `${name}:`, "SRC"   *)
(* is `--- SOURCE: ${NAME} ---`, "sp" a blank and "x" any other word.      *)
(***************************************************************************)
\* tokens of a returned text
MaxStrip == 4

StripAlphabet == {"[N]:", "N:", "SRC", "sp", "x"}

\* lines 209-213, in the order of the array
prefixesToStrip == <<"[N]:", "N:", "SRC">>

startsWith(text, prefix) == Len(text) > 0 /\ text[1] = prefix

\* one iteration of the for loop of lines 215-219
StripPrefix(cleanedText, prefix) ==
  IF startsWith(cleanedText, prefix) THEN StringTrim(Tail(cleanedText)) ELSE cleanedText

\* lines 206-219
StripPrefixes(aiResponseText) ==
  StripPrefix(StripPrefix(StripPrefix(StringTrim(aiResponseText), prefixesToStrip[1]),
                          prefixesToStrip[2]),
              prefixesToStrip[3])

\* the texts getAIResponse can return: cleanResponse (aiService.ts:96-103)
\* has removed a line that consists of a SOURCE tag from hyphen to hyphen,
\* and has trimmed the text
ReturnedTexts ==
  {t \in UNION {[1..n -> StripAlphabet] : n \in 0..MaxStrip} :
     /\ t = StringTrim(t)
     /\ ~(Len(t) > 0 /\ t[1] = "SRC" /\ t[Len(t)] = "SRC")}

InitStrip ==
  /\ mh = MhIdle
  /\ cr = CrIdle
  /\ AppIdle
  /\ sp \in {[pc |-> "input", text |-> t, out |-> <<>>] : t \in ReturnedTexts}

RunStrip ==
  /\ sp.pc = "input"
  /\ sp' = [sp EXCEPT !.pc = "done", !.out = StripPrefixes(sp.text)]
  /\ UNCHANGED <<mh, cr, appVars>>

NextStrip == RunStrip

SpecStrip == InitStrip /\ [][NextStrip]_vars

(***************************************************************************)
(* Properties of mapHistory (checked under SpecMap).                       *)
(***************************************************************************)
MapDone == mh.pc = "done"
Strict == mh.provider # "gemini"

\* the last n elements of s
Suffix(s, n) == [i \in 1..n |-> s[Len(s) - n + i]]

\* the messages of h that are not system messages, in order
RECURSIVE NonSystemOf(_)
NonSystemOf(h) ==
  IF h = <<>> THEN <<>>
  ELSE IF Head(h).sender = "system" THEN NonSystemOf(Tail(h))
  ELSE <<Head(h)>> \o NonSystemOf(Tail(h))

RECURSIVE SumChars(_)
SumChars(s) == IF s = <<>> THEN 0 ELSE Head(s).text.chars + SumChars(Tail(s))

\* C1: for a non-Gemini provider no two adjacent turns returned by mapHistory
\* have the same role.
C1_StrictAlternation ==
  (MapDone /\ Strict) =>
     \A i \in 1..(Len(mh.out) - 1) : mh.out[i].role # mh.out[i + 1].role

\* C2: for a non-Gemini provider a non-empty result of mapHistory begins with
\* a user turn and ends with a user turn.
C2_FirstAndLastUser ==
  (MapDone /\ Strict /\ mh.out # <<>>) =>
     /\ mh.out[1].role = "user"
     /\ mh.out[Len(mh.out)].role = "user"

\* C2 witness: a window that begins and ends with an assistant message and has
\* a user message in between, so that both repair rules acted.
C2_Witness ==
  /\ MapDone /\ Strict
  /\ Len(mh.finalMessages) >= 3
  /\ mh.finalMessages[1].sender = "ai"
  /\ mh.finalMessages[Len(mh.finalMessages)].sender = "ai"
  /\ \E i \in 1..Len(mh.finalMessages) : mh.finalMessages[i].sender = "user"
  /\ mh.out # <<>>

AllContentNonEmpty == \A i \in 1..Len(mh.out) : ContentChars(mh.out[i].content) > 0

\* C3: every non-empty history gives at least one turn, every turn
\* has non-empty content, and the empty history gives the empty sequence.
C3_NonEmptyHistoryNonEmptyOutput ==
  MapDone =>
     /\ (mh.history # <<>> => Len(mh.out) >= 1)
     /\ AllContentNonEmpty
     /\ (mh.history = <<>> => mh.out = <<>>)

HasBlockOf(content, msg) ==
  \E j \in 1..Len(content) :
     content[j].k = "block" /\ content[j].id = msg.id /\ content[j].text = Trim(msg.text)

\* C4: a history of exactly one assistant message, for a REST provider, gives
\* exactly one user turn whose content is the DIALOGUE CONTEXT marker followed
\* by the message.
C4_SingleAssistantDialogueContext ==
  (MapDone /\ Strict /\ Len(mh.history) = 1 /\ mh.history[1].sender = "ai") =>
     /\ Len(mh.out) = 1
     /\ mh.out[1].role = "user"
     /\ mh.out[1].content[1].k = "dialogue"
     /\ HasBlockOf(mh.out[1].content, mh.history[1])

\* C5: the retained messages are a contiguous suffix of the non-system
\* messages, at most 40 of them, and include the most recent one.
C5_WindowIsBoundedSuffix ==
  MapDone =>
     LET cm == NonSystemOf(mh.history)
         fm == mh.finalMessages
     IN /\ Len(fm) <= MAX_HISTORY_MESSAGES
        /\ Len(fm) <= Len(cm)
        /\ fm = Suffix(cm, Len(fm))
        /\ (cm # <<>> => Len(fm) >= 1 /\ fm[Len(fm)] = cm[Len(cm)])

\* C5 witness: more than 40 non-system messages, of which exactly 40 are kept.
C5_Witness ==
  /\ MapDone
  /\ Len(NonSystemOf(mh.history)) > MAX_HISTORY_MESSAGES
  /\ Len(mh.finalMessages) = MAX_HISTORY_MESSAGES

\* the length of the longest suffix of the last 40 messages of cm whose texts
\* sum to at most 12,000 characters
SetMax(S) == CHOOSE n \in S : \A k \in S : k <= n

LongestFitting(cm) ==
  SetMax({n \in 0..Min(Len(cm), MAX_HISTORY_MESSAGES) :
            SumChars(Suffix(cm, n)) <= MAX_HISTORY_CHARS})

\* C6: the window is the longest suffix of the last 40 non-system messages
\* whose summed text length is at most 12,000; when the most recent message
\* alone exceeds 12,000 the window is that one message; so a window of more
\* than one message sums to at most 12,000.
C6_WindowIsLongestFittingSuffix ==
  MapDone =>
     LET cm == NonSystemOf(mh.history)
         fm == mh.finalMessages
     IN /\ (cm # <<>> /\ cm[Len(cm)].text.chars > MAX_HISTORY_CHARS) => fm = Suffix(cm, 1)
        /\ (cm = <<>> \/ cm[Len(cm)].text.chars <= MAX_HISTORY_CHARS)
              => fm = Suffix(cm, LongestFitting(cm))
        /\ Len(fm) > 1 => SumChars(fm) <= MAX_HISTORY_CHARS

\* C6 witness: the character budget, not the message count, cuts the window:
\* two or more messages are kept summing to exactly the budget and an older
\* message is left out.
C6_Witness ==
  /\ MapDone
  /\ Len(mh.finalMessages) >= 2
  /\ Len(mh.finalMessages) < Min(Len(NonSystemOf(mh.history)), MAX_HISTORY_MESSAGES)
  /\ SumChars(mh.finalMessages) = MAX_HISTORY_CHARS

\* the ids of the messages whose tagged block occurs in the turns
BlockIds(out) ==
  UNION {{out[i].content[j].id : j \in {j \in 1..Len(out[i].content) : out[i].content[j].k = "block"}} :
           i \in 1..Len(out)}

SystemIds(h) == {h[i].id : i \in {i \in 1..Len(h) : h[i].sender = "system"}}

\* C26: no system message contributes content to the turns returned by
\* mapHistory, and system messages do not count toward the window limits: the
\* window and the turns are those of the history without its system messages.
C26_SystemMessagesIgnored ==
  MapDone =>
     /\ \A i \in 1..Len(mh.finalMessages) : mh.finalMessages[i].sender # "system"
     /\ BlockIds(mh.out) \cap SystemIds(mh.history) = {}
     /\ mh.finalMessages = FinalMessages(NonSystemOf(mh.history))
     /\ mh.out = mapHistory(NonSystemOf(mh.history), mh.provider)

\* C26 witness: 41 messages of which one, among the last three, is a system
\* message: the oldest message is in the window only because the system
\* message is not counted.
C26_Witness ==
  /\ MapDone
  /\ Len(mh.history) = MAX_HISTORY_MESSAGES + 1
  /\ \E i \in (Len(mh.history) - 2)..Len(mh.history) : mh.history[i].sender = "system"
  /\ Len(NonSystemOf(mh.history)) = MAX_HISTORY_MESSAGES
  /\ Len(mh.finalMessages) = MAX_HISTORY_MESSAGES
  /\ mh.finalMessages[1] = mh.history[1]
  /\ mh.out # <<>>

\* the pieces of all turns, in order
RECURSIVE Flatten(_)
Flatten(out) == IF out = <<>> THEN <<>> ELSE Head(out).content \o Flatten(Tail(out))

BlocksOf(out) == SelectSeq(Flatten(out), LAMBDA p : p.k = "block")

HasMarker(out, k) == \E i \in 1..Len(out) : \E j \in 1..Len(out[i].content) : out[i].content[j].k = k

\* C28: for a non-Gemini provider the tagged blocks in the turns returned by
\* mapHistory are the tagged blocks of the retained messages, each exactly
\* once and in message order; every other piece is a separator or one of the
\* three wrapper markers, and every turn holds the block of a message (no
\* fabricated filler turn).
C28_RepairPreservesContent ==
  (MapDone /\ Strict) =>
     /\ BlocksOf(mh.out) = [i \in 1..Len(mh.finalMessages) |->
                              Piece("block", ToUpperCase(AuthorLabel(mh.finalMessages[i])),
                                    Trim(mh.finalMessages[i].text), mh.finalMessages[i].id)]
     /\ \A i \in 1..Len(mh.out) :
           /\ \A j \in 1..Len(mh.out[i].content) :
                 mh.out[i].content[j].k \in {"block", "sep", "prev", "follow", "dialogue"}
           /\ \E j \in 1..Len(mh.out[i].content) : mh.out[i].content[j].k = "block"

\* C28 witness: the window begins and ends with an assistant message, both
\* repair rules acted and left their markers in the turns.
C28_Witness ==
  /\ MapDone /\ Strict
  /\ Len(mh.finalMessages) >= 3
  /\ mh.finalMessages[1].sender = "ai"
  /\ mh.finalMessages[Len(mh.finalMessages)].sender = "ai"
  /\ HasMarker(mh.out, "prev") /\ HasMarker(mh.out, "follow")
  /\ Len(BlocksOf(mh.out)) = Len(mh.finalMessages)

(***************************************************************************)
(* Properties of cleanResponse (checked under SpecClean).                  *)
(***************************************************************************)
\* C7: cleanResponse is idempotent.
C7_CleanIdempotent == cr.pc = "twice" => cr.twice = cr.once

\* the lines of a text
RECURSIVE SplitLines(_, _)
SplitLines(text, cur) ==
  IF text = <<>> THEN <<cur>>
  ELSE IF Head(text) = "nl" THEN <<cur>> \o SplitLines(Tail(text), <<>>)
  ELSE SplitLines(Tail(text), Append(cur, Head(text)))

RECURSIVE StripBlanks(_)
StripBlanks(line) ==
  IF line # <<>> /\ Head(line) = "sp" THEN StripBlanks(Tail(line))
  ELSE IF line # <<>> /\ line[Len(line)] = "sp" THEN StripBlanks(SubSeq(line, 1, Len(line) - 1))
  ELSE line

RECURSIVE SkipHyphensAndBlanks(_)
SkipHyphensAndBlanks(line) ==
  IF line # <<>> /\ Head(line) \in {"-", "sp"} THEN SkipHyphensAndBlanks(Tail(line)) ELSE line

\* a line that, blanks around it aside, starts with hyphens, then names SOURCE:
\* or END, and ends with a hyphen
IsTagLine(line) ==
  LET l == StripBlanks(line)
      r == SkipHyphensAndBlanks(l)
  IN /\ Len(l) >= 3
     /\ l[1] = "-"
     /\ l[Len(l)] = "-"
     /\ r # <<>>
     /\ Head(r) \in {"SOURCE:", "END"}

\* C8: no line of cleanResponse(x) is a SOURCE or END tag line.
C8_NoTagLineLeft ==
  cr.pc \in {"once", "twice"} =>
     \A i \in 1..Len(SplitLines(cr.once, <<>>)) : ~IsTagLine(SplitLines(cr.once, <<>>)[i])

(***************************************************************************)
(* The application: App (conversation list, settings, draft, open chat)    *)
(* and the mounted ChatWindow.                                             *)
(***************************************************************************)
\* messages created in one run
MaxMsgs == 3
\* branch drafts created in one run
MaxBranch == 2
\* triggerAIResponseForChat calls suspended at the same time
MaxInFlight == 2
\* conversations created or duplicated in one run
MaxIds == 1

BranchIds == <<"D1", "D2", "D3">>

Chat(id, provider, isGroup, participantIds, parentId) ==
  [id |-> id, provider |-> provider, isGroup |-> isGroup,
   participantIds |-> participantIds, parentId |-> parentId, messages |-> <<>>,
   archived |-> FALSE]

\* an arena created by CreateGroupModal over two assistants, newest first
InitialChats ==
  <<Chat("G", "gemini", TRUE, <<"A", "B">>, None),
    Chat("A", "openai", FALSE, <<>>, None),
    Chat("B", "deepseek", FALSE, <<>>, None)>>

Msg(id, sender, authorId, isError, text) ==
  [id |-> id, sender |-> sender, authorId |-> authorId, isError |-> isError, text |-> text]

\* the answers of a provider in a run: success and rate limit
Statuses == {200, 429}

\* Array.find by id
Find(cs, id) ==
  IF \E i \in 1..Len(cs) : cs[i].id = id
  THEN cs[CHOOSE i \in 1..Len(cs) : cs[i].id = id /\ \A j \in 1..(i - 1) : cs[j].id # id]
  ELSE NoChat

\* Array.findIndex, counted from 1; 0 when absent (-1 in the source)
FindIndex(ids, id) ==
  IF \E i \in 1..Len(ids) : ids[i] = id
  THEN CHOOSE i \in 1..Len(ids) : ids[i] = id /\ \A j \in 1..(i - 1) : ids[j] # id
  ELSE 0

ActiveChat(cs, d, a) == IF d.id # None /\ d.id = a THEN d ELSE Find(cs, a)

\* setChats(prev => prev.map(c => c.id === chatId ? {...c, messages} : c))
SetMessages(cs, chatId, msgs) ==
  [i \in 1..Len(cs) |-> IF cs[i].id = chatId THEN [cs[i] EXCEPT !.messages = msgs] ELSE cs[i]]

UpdateChatMessages(cs, d, chatId, msgs) ==
  IF d.id # None /\ d.id = chatId
  THEN [chats |-> cs, draft |-> [d EXCEPT !.messages = msgs]]
  ELSE [chats |-> SetMessages(cs, chatId, msgs), draft |-> d]

\* updateChat(chatId, {participantIds}), App.tsx lines 276-279
UpdateChat(cs, d, chatId, participantIds) ==
  IF d.id # None /\ d.id = chatId
  THEN [chats |-> cs, draft |-> [d EXCEPT !.participantIds = participantIds]]
  ELSE [chats |-> [i \in 1..Len(cs) |->
                     IF cs[i].id = chatId THEN [cs[i] EXCEPT !.participantIds = participantIds]
                     ELSE cs[i]],
        draft |-> d]

(***************************************************************************)
(* ChatWindow: the values derived from its props.                          *)
(***************************************************************************)
Participants(chat, allChats) ==
  SelectSeq(allChats, LAMBDA c : \E i \in 1..Len(chat.participantIds) : chat.participantIds[i] = c.id)

Responders(chat, allChats) ==
  LET ps == SelectSeq(Participants(chat, allChats), LAMBDA c : c.id # chat.id)
  IN <<"user", chat.id>> \o [i \in 1..Len(ps) |-> ps[i].id]

\* the sheet when it offers the conversation itself as well
ParticipantCandidatesAll(chat, allChats) ==
  SelectSeq(allChats, LAMBDA c :
    /\ ~c.isGroup
    /\ ~c.archived
    /\ \A i \in 1..Len(chat.participantIds) : chat.participantIds[i] # c.id)

\* lines 167-176: the assistants offered by the add-participant sheet
ParticipantCandidates(chat, allChats) ==
  SelectSeq(allChats, LAMBDA c :
    /\ ~c.isGroup
    /\ ~c.archived
    /\ \A i \in 1..Len(chat.participantIds) : chat.participantIds[i] # c.id
    /\ c.id # chat.id)

\* [...messages].reverse().find(m => m.sender === 'ai' && m.authorId): its index, or 0
LastAiIndex(messages) ==
  LET hits == {i \in 1..Len(messages) : messages[i].sender = "ai" /\ messages[i].authorId # ""}
  IN IF hits = {} THEN 0 ELSE CHOOSE i \in hits : \A j \in hits : j <= i

\* triggerNextAI, lines 202-208: the responder id it pins
NextResponderMut(messages, responders) ==
  LET aiResponders == SelectSeq(responders, LAMBDA r : r # "user")
      k == LastAiIndex(messages)
      lastIdx == IF k = 0 THEN 0 ELSE FindIndex(aiResponders, messages[k].authorId)
  IN IF k = 0 \/ lastIdx = 0 THEN aiResponders[1] ELSE aiResponders[lastIdx]
NextResponder(messages, responders) ==
  LET aiResponders == SelectSeq(responders, LAMBDA r : r # "user")
      k == LastAiIndex(messages)
      \* nextIdx stays 0 without an assistant message; findIndex gives -1 for an
      \* author that is no responder, and (-1 + 1) % n = 0
      lastIdx == IF k = 0 THEN 0 ELSE FindIndex(aiResponders, messages[k].authorId)
  IN aiResponders[(lastIdx % Len(aiResponders)) + 1]

\* the condition of the auto-flow effect, line 214
TimerCond(w, chat, allChats) ==
  w.isAutoFlow /\ ~w.isTyping /\ Len(Responders(chat, allChats)) > 1

(***************************************************************************)
(* triggerAIResponseForChat, lines 163-201: the part that runs before the  *)
(* first await.  It reads chats, draftSubChat and settings of the render   *)
(* that created it.                                                        *)
(***************************************************************************)
ApiKeyOf(provider) ==
  IF provider = "openai" THEN settings.openaiKey
  ELSE IF provider = "deepseek" THEN settings.deepseekKey
  ELSE FALSE

ResolveMut(chatId, specificAuthorId) ==
  LET isDraft == draftSubChat.id # None /\ draftSubChat.id = chatId
      chatBase == IF isDraft THEN draftSubChat ELSE Find(chats, chatId)
      targetAssistant ==
        IF chatBase.id = None THEN NoChat
        ELSE IF ~chatBase.isGroup /\ Len(chatBase.participantIds) = 0 THEN chatBase
        ELSE IF Len(chatBase.participantIds) > 0 THEN Find(chats, chatBase.participantIds[1])
        ELSE NoChat
      apiKey == IF targetAssistant.id = None THEN FALSE ELSE ApiKeyOf(targetAssistant.provider)
  IN [isDraft |-> isDraft, chatBase |-> chatBase, target |-> targetAssistant, apiKey |-> apiKey,
      specificAuthorId |-> specificAuthorId,
      outcome |-> IF chatBase.id = None THEN "nochat"
                  ELSE IF targetAssistant.id = None THEN "notarget"
                  ELSE IF targetAssistant.provider # "gemini" /\ ~apiKey THEN "nokey"
                  ELSE "fetch"]
Resolve(chatId, specificAuthorId) ==
  LET isDraft == draftSubChat.id # None /\ draftSubChat.id = chatId
      chatBase == IF isDraft THEN draftSubChat ELSE Find(chats, chatId)
      targetAssistant ==
        IF chatBase.id = None THEN NoChat
        ELSE IF specificAuthorId # None /\ specificAuthorId # "user"
             THEN Find(chats, specificAuthorId)
        ELSE IF ~chatBase.isGroup /\ Len(chatBase.participantIds) = 0 THEN chatBase
        ELSE IF Len(chatBase.participantIds) > 0 THEN Find(chats, chatBase.participantIds[1])
        ELSE NoChat
      apiKey == IF targetAssistant.id = None THEN FALSE ELSE ApiKeyOf(targetAssistant.provider)
  IN [isDraft |-> isDraft, chatBase |-> chatBase, target |-> targetAssistant, apiKey |-> apiKey,
      specificAuthorId |-> specificAuthorId,
      outcome |-> IF chatBase.id = None THEN "nochat"
                  ELSE IF targetAssistant.id = None THEN "notarget"
                  ELSE IF targetAssistant.provider # "gemini" /\ ~apiKey THEN "nokey"
                  ELSE "fetch"]

\* the messages a call of triggerAIResponseForChat will certainly add
WillAdd(r) == IF r.outcome \in {"nokey", "fetch"} THEN 1 ELSE 0

\* lines 190-200: the error message for a missing key, written over the log
\* of the conversation in the list
AfterNoKey(cs, chatId, currentMessages) ==
  SetMessages(cs, chatId, Append(currentMessages, Msg(nextId, "system", "", TRUE, "nokey")))

NewCall(chatId, currentMessages, r) ==
  [chatId |-> chatId, currentMessages |-> currentMessages, isDraft |-> r.isDraft,
   chatBase |-> r.chatBase, target |-> r.target.id, provider |-> r.target.provider,
   specificAuthorId |-> r.specificAuthorId,
   retryCount |-> 0, phase |-> "fetch", sent |-> 1, live |-> TRUE]

\* what the step's invocation of triggerAIResponseForChat was
CallRecord(via, chatId, specificAuthorId, currentMessages, logBefore, r) ==
  [outcome |-> r.outcome, via |-> via, chatId |-> chatId,
   specificAuthorId |-> specificAuthorId, currentMessages |-> currentMessages,
   logBefore |-> logBefore, target |-> r.target.id, isDraft |-> r.isDraft]

(***************************************************************************)
(* One render after the state updates of a handler: the conversation shown *)
(* decides whether ChatWindow is (still) mounted; when the dependencies of *)
(* the auto-flow effect changed, its cleanup clears the timer and the      *)
(* effect sets a new one if its condition holds (lines 213-218).           *)
(***************************************************************************)
Render(ncs, nd, na, nw, ncalls, rerun) ==
  LET ac == ActiveChat(ncs, nd, na)
  IN /\ chats' = ncs
     /\ draftSubChat' = nd
     /\ activeChatId' = na
     /\ IF ac.id = None
        THEN /\ win' = WinClosed
             /\ calls' = [i \in 1..Len(ncalls) |-> [ncalls[i] EXCEPT !.live = FALSE]]
        ELSE /\ calls' = ncalls
             /\ win' = IF ~win.mounted THEN WinFresh
                       ELSE [nw EXCEPT !.timer = IF rerun THEN TimerCond(nw, ac, ncs) ELSE nw.timer]

\* room for the messages a handler adds now (m) and the one every pending call adds
HasRoom(m) == (nextId - 1) + Len(calls) + m <= MaxMsgs

\* the keys saved in the settings view: one provider without, one with
StoredSettings == [openaiKey |-> FALSE, deepseekKey |-> TRUE]

(***************************************************************************)
(* Actions.                                                                *)
(***************************************************************************)
InitApp ==
  /\ chats = InitialChats
  /\ settings = StoredSettings
  /\ activeChatId = None
  /\ draftSubChat = NoChat
  /\ win = WinClosed
  /\ calls = <<>>
  /\ netSent = 0
  /\ nextId = 1
  /\ nBranch = 0
  /\ nIds = 0
  /\ lastCall = NoCall
  /\ lastReply = NoReply

\* handleChatSelection / the parent card: setActiveChatId(id)
OpenChat(id) ==
  /\ ~win.mounted
  /\ Find(chats, id).id # None
  /\ Render(chats, draftSubChat, id, win, calls, TRUE)
  /\ netSent' = 0 /\ lastCall' = NoCall
  /\ lastReply' = NoReply
  /\ UNCHANGED <<mh, cr, sp, settings, nextId, nBranch, nIds>>

\* onClose of the ChatWindow mount (App.tsx line 464)
CloseChat ==
  /\ win.mounted
  /\ Render(chats, NoChat, None, win, calls, TRUE)
  /\ netSent' = 0 /\ lastCall' = NoCall
  /\ lastReply' = NoReply
  /\ UNCHANGED <<mh, cr, sp, settings, nextId, nBranch, nIds>>

\* the responder strip: setSelectedAuthorId(r.id)
SelectAuthor(r) ==
  /\ win.mounted
  /\ r # win.selectedAuthorId
  /\ \E i \in 1..Len(Responders(ActiveChat(chats, draftSubChat, activeChatId), chats)) :
        Responders(ActiveChat(chats, draftSubChat, activeChatId), chats)[i] = r
  /\ win' = [win EXCEPT !.selectedAuthorId = r]
  /\ netSent' = 0 /\ lastCall' = NoCall
  /\ lastReply' = NoReply
  /\ UNCHANGED <<mh, cr, sp, chats, settings, activeChatId, draftSubChat, calls, nextId, nBranch, nIds>>

\* the sender picker: setSenderPersonaId over personaCandidates (non-group chats) or 'user'
SelectSender(p) ==
  /\ win.mounted
  /\ p # win.senderPersonaId
  /\ p = "user" \/ (Find(chats, p).id # None /\ ~Find(chats, p).isGroup)
  /\ win' = [win EXCEPT !.senderPersonaId = p]
  /\ netSent' = 0 /\ lastCall' = NoCall
  /\ lastReply' = NoReply
  /\ UNCHANGED <<mh, cr, sp, chats, settings, activeChatId, draftSubChat, calls, nextId, nBranch, nIds>>

\* the auto-flow switch, shown for more than two responders (lines 311-318)
ToggleAutoFlow ==
  /\ win.mounted
  /\ Len(Responders(ActiveChat(chats, draftSubChat, activeChatId), chats)) > 2
  /\ Render(chats, draftSubChat, activeChatId,
            [win EXCEPT !.isAutoFlow = ~win.isAutoFlow], calls, TRUE)
  /\ netSent' = 0 /\ lastCall' = NoCall
  /\ lastReply' = NoReply
  /\ UNCHANGED <<mh, cr, sp, settings, nextId, nBranch, nIds>>

\* the state after triggerAIResponseForChat ran up to its first await or its
\* return, called by ChatWindow with setIsTyping(true) before and, when it
\* returned at once, setIsTyping(false) after
Launch(via, cs1, d1, currentMessages, specificAuthorId, added, rearm) ==
  LET chatId == activeChatId
      r == Resolve(chatId, specificAuthorId)
      logBefore == ActiveChat(cs1, d1, chatId).messages
      cs2 == IF r.outcome = "nokey" THEN AfterNoKey(cs1, chatId, currentMessages) ELSE cs1
      changed == added > 0 \/ cs2 # cs1 \/ r.outcome = "fetch" \/ win.isTyping
  IN /\ HasRoom(added + WillAdd(r))
     /\ r.outcome = "fetch" => Len(calls) < MaxInFlight
     /\ Render(cs2, d1, activeChatId,
               [win EXCEPT !.isTyping = (r.outcome = "fetch"),
                           !.timer = IF via = "auto" THEN FALSE ELSE win.timer],
               IF r.outcome = "fetch" THEN Append(calls, NewCall(chatId, currentMessages, r))
               ELSE calls,
               changed \/ rearm)
     /\ nextId' = nextId + added + (IF r.outcome = "nokey" THEN 1 ELSE 0)
     /\ netSent' = IF r.outcome = "fetch" THEN 1 ELSE 0
     /\ lastCall' = CallRecord(via, chatId, specificAuthorId, currentMessages, logBefore, r)
     /\ lastReply' = NoReply

\* handleSend, line 268: the responder pinned when the user pinned none
DefaultTargetIdMut(responders) ==
  IF Len(responders) > 1 THEN responders[Len(responders)] ELSE None
DefaultTargetId(responders) ==
  IF Len(responders) > 1 THEN responders[2] ELSE None

\* handleSend, lines 244-275
HandleSend(hasText) ==
  /\ win.mounted
  /\ hasText \/ win.selectedAuthorId # "user"
  /\ LET chat == ActiveChat(chats, draftSubChat, activeChatId)
         isImpersonating == win.senderPersonaId # "user"
         senderMsg == Msg(nextId, IF isImpersonating THEN "ai" ELSE "user",
                          IF isImpersonating THEN win.senderPersonaId ELSE "", FALSE, "typed")
         newMsgs == IF hasText THEN Append(chat.messages, senderMsg) ELSE chat.messages
         upd == IF hasText THEN UpdateChatMessages(chats, draftSubChat, chat.id, newMsgs)
                ELSE [chats |-> chats, draft |-> draftSubChat]
         responders == Responders(chat, chats)
         added == IF hasText THEN 1 ELSE 0
     IN IF win.senderPersonaId = "user"
        THEN Launch("send", upd.chats, upd.draft, newMsgs,
                    IF win.selectedAuthorId = "user"
                    THEN DefaultTargetId(responders)
                    ELSE win.selectedAuthorId,
                    added, FALSE)
        ELSE /\ HasRoom(added)
             /\ Render(upd.chats, upd.draft, activeChatId, win, calls, TRUE)
             /\ nextId' = nextId + added
             /\ netSent' = 0 /\ lastCall' = NoCall
             /\ lastReply' = NoReply
  /\ UNCHANGED <<mh, cr, sp, settings, nBranch, nIds>>

\* the auto-flow timer fires: triggerNextAI, lines 200-211.  When the call
\* returns at once without a state change, whether the effect runs again
\* depends on whether the two setIsTyping calls are rendered separately.
TimerFires ==
  /\ win.mounted /\ win.timer
  /\ LET chat == ActiveChat(chats, draftSubChat, activeChatId)
         responders == Responders(chat, chats)
     IN /\ ~(Len(responders) < 2 \/ win.isTyping)
        /\ \E rearm \in BOOLEAN :
              Launch("auto", chats, draftSubChat, chat.messages,
                     NextResponder(chat.messages, responders), 0, rearm)
  /\ UNCHANGED <<mh, cr, sp, settings, nBranch, nIds>>

\* handleBranch, lines 308-315
HandleBranch ==
  /\ win.mounted
  /\ nBranch < MaxBranch
  /\ LET parentChat == Find(chats, activeChatId)
     IN /\ parentChat.id # None
        /\ Len(ActiveChat(chats, draftSubChat, activeChatId).messages) > 0
        /\ Render(chats,
                  [parentChat EXCEPT !.id = BranchIds[nBranch + 1],
                                     !.parentId = parentChat.id, !.messages = <<>>],
                  BranchIds[nBranch + 1], win, calls, TRUE)
  /\ nBranch' = nBranch + 1
  /\ netSent' = 0 /\ lastCall' = NoCall
  /\ lastReply' = NoReply
  /\ UNCHANGED <<mh, cr, sp, settings, nextId, nIds>>

\* the minus button of a participant row (line 576)
RemoveParticipant(p) ==
  /\ win.mounted
  /\ LET chat == ActiveChat(chats, draftSubChat, activeChatId)
         upd == UpdateChat(chats, draftSubChat, chat.id,
                           SelectSeq(chat.participantIds, LAMBDA id : id # p))
     IN /\ \E i \in 1..Len(Participants(chat, chats)) : Participants(chat, chats)[i].id = p
        /\ Render(upd.chats, upd.draft, activeChatId, win, calls, TRUE)
  /\ netSent' = 0 /\ lastCall' = NoCall
  /\ lastReply' = NoReply
  /\ UNCHANGED <<mh, cr, sp, settings, nextId, nBranch, nIds>>

\* a row of the add-participant sheet (line 512)
AddParticipant(a) ==
  /\ win.mounted
  /\ LET chat == ActiveChat(chats, draftSubChat, activeChatId)
         upd == UpdateChat(chats, draftSubChat, chat.id, Append(chat.participantIds, a))
     IN /\ \E i \in 1..Len(ParticipantCandidates(chat, chats)) :
              ParticipantCandidates(chat, chats)[i].id = a
        /\ Render(upd.chats, upd.draft, activeChatId, win, calls, TRUE)
  /\ netSent' = 0 /\ lastCall' = NoCall
  /\ lastReply' = NoReply
  /\ UNCHANGED <<mh, cr, sp, settings, nextId, nBranch, nIds>>

(***************************************************************************)
(* The conversation list: creating, duplicating, archiving and deleting.   *)
(* The list is covered by the ChatWindow while a conversation is open, so  *)
(* its handlers run only while none is.                                    *)
(***************************************************************************)
\* the ids of generateUniqueId and of `custom-${Date.now()}`: never repeated
NewIds == <<"N1", "N2", "N3">>

\* onCreate of CreateAssistantModal: the conversation built in lines 158-171
CreateAssistant ==
  /\ ~win.mounted
  /\ nIds < MaxIds
  /\ Render(<<Chat(NewIds[nIds + 1], "deepseek", FALSE, <<>>, None)>> \o chats,
            draftSubChat, activeChatId, win, calls, FALSE)
  /\ nIds' = nIds + 1
  /\ netSent' = 0 /\ lastCall' = NoCall
  /\ lastReply' = NoReply
  /\ UNCHANGED <<mh, cr, sp, settings, nextId, nBranch>>

\* the rows CreateGroupModal offers (line 450)
GroupChoices(availableAssistants) ==
  {availableAssistants[i].id :
     i \in {j \in 1..Len(availableAssistants) : ~availableAssistants[j].isGroup}}

\* handleCreate of CreateGroupModal (lines 394-414) and its onCreate; the
\* user ticked first, then second (the same row twice: one participant)
CreateGroup(first, second) ==
  /\ ~win.mounted
  /\ nIds < MaxIds
  /\ {first, second} \subseteq GroupChoices(chats)
  /\ LET selectedIds == IF first = second THEN <<first>> ELSE <<first, second>>
     IN Render(<<Chat(NewIds[nIds + 1], "gemini", TRUE, selectedIds, None)>> \o chats,
               draftSubChat, activeChatId, win, calls, FALSE)
  /\ nIds' = nIds + 1
  /\ netSent' = 0 /\ lastCall' = NoCall
  /\ lastReply' = NoReply
  /\ UNCHANGED <<mh, cr, sp, settings, nextId, nBranch>>

\* a copy filed as a thread of itself
DuplicatedUnderItself(cs, id, newId) ==
  LET original == Find(cs, id)
  IN IF original.id = None THEN cs
     ELSE <<[original EXCEPT !.id = newId, !.messages = <<>>, !.parentId = newId]>> \o cs

\* handleDuplicateChat, lines 289-306: the list after it
Duplicated(cs, id, newId) ==
  LET original == Find(cs, id)
  IN IF original.id = None THEN cs
     ELSE <<[original EXCEPT !.id = newId, !.messages = <<>>,
                             !.parentId = original.parentId]>> \o cs

\* handleArchiveChat, lines 281-285: the list after it
Archived(cs, id) ==
  [i \in 1..Len(cs) |-> IF cs[i].id = id THEN [cs[i] EXCEPT !.archived = TRUE] ELSE cs[i]]

\* onDeleteChat: prev.filter(c => c.id !== id)
Deleted(cs, id) == SelectSeq(cs, LAMBDA c : c.id # id)

\* the list's onDuplicateChat
DuplicateChat(id) ==
  /\ ~win.mounted
  /\ nIds < MaxIds
  /\ Find(chats, id).id # None
  /\ Render(Duplicated(chats, id, NewIds[nIds + 1]), draftSubChat, activeChatId, win, calls, FALSE)
  /\ nIds' = nIds + 1
  /\ netSent' = 0 /\ lastCall' = NoCall
  /\ lastReply' = NoReply
  /\ UNCHANGED <<mh, cr, sp, settings, nextId, nBranch>>

\* the list's onArchiveChat
ArchiveChat(id) ==
  /\ ~win.mounted
  /\ Find(chats, id).id # None /\ ~Find(chats, id).archived
  /\ Render(Archived(chats, id), draftSubChat,
            IF activeChatId = id THEN None ELSE activeChatId, win, calls, FALSE)
  /\ netSent' = 0 /\ lastCall' = NoCall
  /\ lastReply' = NoReply
  /\ UNCHANGED <<mh, cr, sp, settings, nextId, nBranch, nIds>>

\* the list's onDeleteChat (App.tsx line 409)
DeleteChat(id) ==
  /\ ~win.mounted
  /\ Find(chats, id).id # None
  /\ Render(Deleted(chats, id), draftSubChat, activeChatId, win, calls, FALSE)
  /\ netSent' = 0 /\ lastCall' = NoCall
  /\ lastReply' = NoReply
  /\ UNCHANGED <<mh, cr, sp, settings, nextId, nBranch, nIds>>

\* "Duplicate Thread" of the open conversation (App.tsx line 464)
DuplicateOpen ==
  /\ win.mounted
  /\ nIds < MaxIds
  /\ Render(Duplicated(chats, activeChatId, NewIds[nIds + 1]), draftSubChat, None, win, calls, TRUE)
  /\ nIds' = nIds + 1
  /\ netSent' = 0 /\ lastCall' = NoCall
  /\ lastReply' = NoReply
  /\ UNCHANGED <<mh, cr, sp, settings, nextId, nBranch>>

\* "Archive Conversation" of the open conversation (App.tsx line 464)
ArchiveOpen ==
  /\ win.mounted
  /\ Render(Archived(chats, activeChatId), draftSubChat, None, win, calls, TRUE)
  /\ netSent' = 0 /\ lastCall' = NoCall
  /\ lastReply' = NoReply
  /\ UNCHANGED <<mh, cr, sp, settings, nextId, nBranch, nIds>>

\* "Destroy Thread" of the open conversation (App.tsx line 464)
DeleteOpen ==
  /\ win.mounted
  /\ Render(Deleted(chats, activeChatId), draftSubChat, None, win, calls, TRUE)
  /\ netSent' = 0 /\ lastCall' = NoCall
  /\ lastReply' = NoReply
  /\ UNCHANGED <<mh, cr, sp, settings, nextId, nBranch, nIds>>

RemoveAt(s, i) == SubSeq(s, 1, i - 1) \o SubSeq(s, i + 1, Len(s))

\* lines 221-239 (success) and 240-250 (catch) of triggerAIResponseForChat,
\* then the finally of the ChatWindow handler that awaited it
Complete(i, ok, text) ==
  LET c == calls[i]
      m == IF ok THEN Msg(nextId, "ai", c.target, FALSE, text)
           ELSE Msg(nextId, "system", "", TRUE, text)
      finalMessages == Append(c.currentMessages, m)
      commitDraft == ok /\ c.isDraft
      finalizedChat == [c.chatBase EXCEPT !.messages = finalMessages]
      ncs == IF commitDraft
             THEN <<finalizedChat>> \o SelectSeq(chats, LAMBDA x : x.id # finalizedChat.id)
             ELSE SetMessages(chats, c.chatId, finalMessages)
      nw == IF c.live THEN [win EXCEPT !.isTyping = FALSE] ELSE win
  IN /\ Render(ncs,
               IF commitDraft THEN NoChat ELSE draftSubChat,
               IF commitDraft THEN finalizedChat.id ELSE activeChatId,
               nw, RemoveAt(calls, i), TRUE)
     /\ nextId' = nextId + 1

\* getAIResponse, lines 167-190: what a REST request that was answered with
\* status leads to (0: fetch or res.json() threw)
RestOutcomeRetryAuth(status, retryCount) ==
  IF status = 200 THEN "reply"
  ELSE IF status = 0 THEN "transport"
  ELSE IF status \in {401, 429} /\ retryCount < 1 THEN "retry"
  ELSE IF status = 401 THEN "auth"
  ELSE "provider"
RestOutcomeRetryTwice(status, retryCount) ==
  IF status = 200 THEN "reply"
  ELSE IF status = 0 THEN "transport"
  ELSE IF status = 401 THEN "auth"
  ELSE IF status = 429 /\ retryCount < 2 THEN "retry"
  ELSE "provider"
RestOutcomeLostRetry(status, retryCount) ==
  IF status = 200 /\ retryCount = 0 THEN "reply"
  ELSE IF status = 0 THEN "transport"
  ELSE IF status = 401 THEN "auth"
  ELSE IF status = 429 /\ retryCount < 1 THEN "retry"
  ELSE "provider"
RestOutcome(status, retryCount) ==
  IF status = 200 THEN "reply"
  ELSE IF status = 0 THEN "transport"
  ELSE IF status = 401 THEN "auth"
  ELSE IF status = 429 /\ retryCount < 1 THEN "retry"
  ELSE "provider"

\* the log of a conversation, empty when the conversation is not there
LogOf(cs, d, chatId) ==
  IF ActiveChat(cs, d, chatId).id = None THEN <<>> ELSE ActiveChat(cs, d, chatId).messages

\* what the step's provider answer was: the status, the call it answered,
\* what getAIResponse did with it, the number of suspended calls, and the log
\* of the call's conversation when it arrived and whether it was still there
ReplyRecord(i, status) ==
  [status |-> status, call |-> calls[i],
   result |-> IF calls[i].provider = "gemini"
              THEN (IF status = 200 THEN "reply" ELSE "gemini")
              ELSE RestOutcome(status, calls[i].retryCount),
   inFlight |-> Len(calls),
   logBefore |-> LogOf(chats, draftSubChat, calls[i].chatId),
   present |-> ActiveChat(chats, draftSubChat, calls[i].chatId).id # None]

\* getAIResponse, lines 118-198: the provider answers request i
NetReply(i, status) ==
  /\ i \in 1..Len(calls)
  /\ calls[i].phase = "fetch"
  /\ LET c == calls[i]
         o == RestOutcome(status, c.retryCount)
     IN IF c.provider = "gemini"
        THEN Complete(i, status = 200, IF status = 200 THEN "reply" ELSE "gemini")
        ELSE IF o = "retry"
             THEN /\ calls' = [calls EXCEPT ![i].phase = "sleep"]
                  /\ UNCHANGED <<chats, draftSubChat, activeChatId, win, nextId>>
        ELSE Complete(i, o = "reply", o)
  /\ netSent' = 0 /\ lastCall' = NoCall
  /\ lastReply' = ReplyRecord(i, status)
  /\ UNCHANGED <<mh, cr, sp, settings, nBranch, nIds>>

\* lines 185-186: after the pause getAIResponse calls itself with retryCount + 1
RetryAfterSleep(i) ==
  /\ i \in 1..Len(calls)
  /\ calls[i].phase = "sleep"
  /\ calls' = [calls EXCEPT ![i].phase = "fetch", ![i].retryCount = @ + 1, ![i].sent = @ + 1]
  /\ netSent' = 1 /\ lastCall' = NoCall
  /\ lastReply' = NoReply
  /\ UNCHANGED <<mh, cr, sp, chats, settings, activeChatId, draftSubChat, win, nextId, nBranch, nIds>>

\* the cards the user opens and the senders the user writes as
Opened == {"G", "A"}
Personas == {"user", "B"}

Init == mh = MhIdle /\ cr = CrIdle /\ sp = SpIdle /\ InitApp

Next ==
  \/ \E id \in Opened : OpenChat(id)
  \/ CloseChat
  \/ \E r \in {"user", "G", "A", "B", "D1", "D2"} : SelectAuthor(r)
  \/ \E p \in Personas : SelectSender(p)
  \/ ToggleAutoFlow
  \/ \E hasText \in BOOLEAN : HandleSend(hasText)
  \/ TimerFires
  \/ HandleBranch
  \/ \E i \in 1..MaxInFlight, status \in Statuses : NetReply(i, status)
  \/ \E i \in 1..MaxInFlight : RetryAfterSleep(i)

Spec == Init /\ [][Next]_vars

\* every answer of a provider: success, rejected key, rate limit, another
\* failure status, and a request or a body that could not be read
Replies == {200, 401, 429, 500, 0}

\* the runs in which the user writes under their own name, branches, and the
\* providers answer in every way
NextNet ==
  \/ \E id \in Opened : OpenChat(id)
  \/ \E r \in {"user", "G", "A", "B", "D1", "D2"} : SelectAuthor(r)
  \/ \E hasText \in BOOLEAN : HandleSend(hasText)
  \/ HandleBranch
  \/ \E i \in 1..MaxInFlight, status \in Replies : NetReply(i, status)
  \/ \E i \in 1..MaxInFlight : RetryAfterSleep(i)

SpecNet == Init /\ [][NextNet]_vars

\* the runs of the auto-flow: the user opens and closes conversations, picks
\* responder and sender, sends, and the timer of the auto-flow fires
NextFlow ==
  \/ \E id \in Opened : OpenChat(id)
  \/ CloseChat
  \/ \E r \in {"user", "G", "A", "B"} : SelectAuthor(r)
  \/ \E p \in Personas : SelectSender(p)
  \/ ToggleAutoFlow
  \/ \E hasText \in BOOLEAN : HandleSend(hasText)
  \/ TimerFires
  \/ \E i \in 1..MaxInFlight, status \in Statuses : NetReply(i, status)
  \/ \E i \in 1..MaxInFlight : RetryAfterSleep(i)

SpecFlow == Init /\ [][NextFlow]_vars

\* the runs of an arena whose participants change while the auto-flow runs
NextArena ==
  \/ OpenChat("G")
  \/ CloseChat
  \/ ToggleAutoFlow
  \/ TimerFires
  \/ \E p \in {"A", "B"} : RemoveParticipant(p)
  \/ \E a \in {"A", "B"} : AddParticipant(a)
  \/ \E i \in 1..MaxInFlight, status \in Statuses : NetReply(i, status)
  \/ \E i \in 1..MaxInFlight : RetryAfterSleep(i)

SpecArena == Init /\ [][NextArena]_vars

\* the runs in which the user manages the list: creates assistants and
\* arenas, duplicates, archives and deletes conversations, and talks to B
\* in B and in the threads branched from it
NextOps ==
  \/ \E id \in {"B", "D1", "D2"} : OpenChat(id)
  \/ CloseChat
  \/ CreateAssistant
  \/ \E first, second \in {"A", "B"} : CreateGroup(first, second)
  \/ \E id \in {"G", "D1"} : DuplicateChat(id)
  \/ \E id \in {"A"} : ArchiveChat(id)
  \/ \E id \in {"B", "D1"} : DeleteChat(id)
  \/ DuplicateOpen
  \/ ArchiveOpen
  \/ DeleteOpen
  \/ SelectAuthor("B")
  \/ HandleSend(FALSE)
  \/ HandleBranch
  \/ \E i \in 1..MaxInFlight : NetReply(i, 200)

SpecOps == Init /\ [][NextOps]_vars

\* the runs in which the user changes who takes part: creates assistants and
\* arenas, duplicates, adds and removes participants, and branches
NextCast ==
  \/ \E id \in {"A", "N1"} : OpenChat(id)
  \/ CloseChat
  \/ CreateAssistant
  \/ \E first, second \in {"A", "B"} : CreateGroup(first, second)
  \/ DuplicateChat("G")
  \/ DuplicateOpen
  \/ \E p \in {"A", "B"} : RemoveParticipant(p)
  \/ \E a \in {"A", "B", "N1"} : AddParticipant(a)
  \/ HandleSend(TRUE)
  \/ HandleBranch
  \/ \E i \in 1..MaxInFlight : NetReply(i, 200)

SpecCast == Init /\ [][NextCast]_vars

(***************************************************************************)
(* Claims about the application.  lastCall is the invocation of            *)
(* triggerAIResponseForChat made by the last step, netSent the number of   *)
(* requests that step sent.                                                *)
(***************************************************************************)
CallMade == lastCall.outcome # "none"

\* the conversation the last invocation was made for, as it is now
CalledChat == ActiveChat(chats, draftSubChat, lastCall.chatId)

\* the ordered assistant list of that conversation: its own persona, then its
\* participants
AssistantList == Tail(Responders(CalledChat, chats))

\* the assistant-authored messages of the log the invocation started from
AssistantMessages == SelectSeq(lastCall.logBefore, LAMBDA m : m.sender = "ai")

LastAssistantAuthor == AssistantMessages[Len(AssistantMessages)].authorId

\* C9: when the auto-flow timer calls triggerNextAI and the most recent
\* assistant-authored message of the log was written by the i-th assistant of
\* the list L (own persona, then participants), the responder it pins is the
\* assistant after it, the first one after the last; messages of the human in
\* the log play no part.
C9_RoundRobinRotation ==
  (CallMade /\ lastCall.via = "auto" /\ Len(AssistantMessages) > 0) =>
    \A i \in 1..Len(AssistantList) :
      (AssistantList[i] = LastAssistantAuthor /\ \A j \in 1..(i - 1) : AssistantList[j] # LastAssistantAuthor)
        => lastCall.specificAuthorId = AssistantList[(i % Len(AssistantList)) + 1]

\* the rotation wraps: the last assistant of the list wrote last, a message of
\* the human is in the log, and the first assistant is pinned
C9_Witness ==
  /\ CallMade /\ lastCall.via = "auto" /\ Len(AssistantMessages) > 0
  /\ Len(AssistantList) = 3
  /\ LastAssistantAuthor = AssistantList[3]
  /\ \E k \in 1..Len(lastCall.logBefore) : lastCall.logBefore[k].sender = "user"
  /\ lastCall.specificAuthorId = AssistantList[1]

\* C10: when triggerAIResponseForChat resolves a responder of a REST provider
\* for which no key is stored, the log of the conversation is afterwards the
\* log it had at the call plus exactly one message, a system message with
\* isError, and no request was sent.
C10_MissingKeyAppendsOneError ==
  (CallMade /\ lastCall.outcome = "nokey") =>
    /\ netSent = 0
    /\ Len(CalledChat.messages) = Len(lastCall.logBefore) + 1
    /\ SubSeq(CalledChat.messages, 1, Len(lastCall.logBefore)) = lastCall.logBefore
    /\ CalledChat.messages[Len(CalledChat.messages)].sender = "system"
    /\ CalledChat.messages[Len(CalledChat.messages)].isError

(***************************************************************************)
(* Claims about getAIResponse and the completion of a call.  lastReply is  *)
(* the provider answer handled by the last step.                           *)
(***************************************************************************)
Replied == lastReply.status # -1
RestReplied == Replied /\ lastReply.call.provider # "gemini"

\* the call that was answered is not suspended any more
CallEnded == Len(calls) = lastReply.inFlight - 1

\* the call that was answered waits for its retry
CallSleeps ==
  /\ Len(calls) = lastReply.inFlight
  /\ \E j \in 1..Len(calls) : calls[j] = [lastReply.call EXCEPT !.phase = "sleep"]

\* the log of the answered call's conversation, as it is now
RepliedLog == LogOf(chats, draftSubChat, lastReply.call.chatId)

\* C11: when a REST provider answered 429 to the first request of a call and
\* answers 200 to its retry, the call ends, its conversation's log is the log
\* the call was made with plus exactly one message, an assistant message and
\* no error message, and the call has sent exactly two requests.
C11_RetryThenSuccess ==
  (RestReplied /\ lastReply.status = 200 /\ lastReply.call.retryCount >= 1) =>
    /\ CallEnded
    /\ lastReply.call.sent = 2
    /\ netSent = 0
    /\ Len(RepliedLog) = Len(lastReply.call.currentMessages) + 1
    /\ SubSeq(RepliedLog, 1, Len(RepliedLog) - 1) = lastReply.call.currentMessages
    /\ RepliedLog[Len(RepliedLog)].sender = "ai"
    /\ ~RepliedLog[Len(RepliedLog)].isError

\* a retried call was answered 200 and its conversation's log ends with the
\* assistant message
C11_Witness ==
  /\ RestReplied /\ lastReply.status = 200 /\ lastReply.call.retryCount = 1
  /\ lastReply.call.sent = 2
  /\ Len(RepliedLog) > 0
  /\ RepliedLog[Len(RepliedLog)].sender = "ai"
  /\ RepliedLog[Len(RepliedLog)].authorId = lastReply.call.target

\* C12: every call of triggerAIResponseForChat that resolved a responder adds
\* exactly one message to the log it was made with, for a conversation of
\* the list and for a branch draft: at once a system error message when the
\* key is missing; when the call ends, an assistant message after a success
\* and a system error message after a failure.
C12_ExactlyOneMessage ==
  /\ (CallMade /\ lastCall.outcome = "nokey") =>
        LET log == LogOf(chats, draftSubChat, lastCall.chatId)
        IN /\ Len(log) = Len(lastCall.currentMessages) + 1
           /\ SubSeq(log, 1, Len(log) - 1) = lastCall.currentMessages
           /\ log[Len(log)].sender = "system" /\ log[Len(log)].isError
  /\ (Replied /\ CallEnded) =>
        /\ Len(RepliedLog) = Len(lastReply.call.currentMessages) + 1
        /\ SubSeq(RepliedLog, 1, Len(RepliedLog) - 1) = lastReply.call.currentMessages
        /\ IF lastReply.result = "reply"
           THEN RepliedLog[Len(RepliedLog)].sender = "ai"
           ELSE RepliedLog[Len(RepliedLog)].sender = "system" /\ RepliedLog[Len(RepliedLog)].isError

\* the last message of a log is a system error message with the given text
EndsWithError(log, text) ==
  /\ Len(log) > 0
  /\ log[Len(log)].sender = "system"
  /\ log[Len(log)].isError
  /\ log[Len(log)].text = text

\* C13: every failure of a call (missing key, 401, 429 after the retry,
\* another failure status, a request or body that could not be read, a
\* failure of the Gemini client) leaves a system message with isError and the
\* failure text at the end of the conversation's log; no failure goes without
\* a log entry.
C13_FailureBecomesLogEntry ==
  /\ (CallMade /\ lastCall.outcome = "nokey") =>
        EndsWithError(LogOf(chats, draftSubChat, lastCall.chatId), "nokey")
  /\ (Replied /\ CallEnded /\ lastReply.result # "reply") =>
        EndsWithError(RepliedLog, lastReply.result)

\* C14: no two suspended calls of triggerAIResponseForChat are for the same
\* conversation.
C14_OneCallPerConversation ==
  \A i, j \in 1..Len(calls) : i # j => calls[i].chatId # calls[j].chatId

\* C15: when a call ends, the log of its conversation is the log as it was
\* when the answer arrived, with exactly one message added at the end: what
\* was added to the log while the call was suspended is still there.
C15_CommitIsAppend ==
  (Replied /\ CallEnded) =>
    /\ Len(RepliedLog) = Len(lastReply.logBefore) + 1
    /\ SubSeq(RepliedLog, 1, Len(RepliedLog) - 1) = lastReply.logBefore

(***************************************************************************)
(* Claims about the responder of a send.                                   *)
(***************************************************************************)
\* the last step was a send of the user with no responder pinned
UnpinnedSend == CallMade /\ lastCall.via = "send" /\ win.selectedAuthorId = "user"

MultiParty(chat) == chat.isGroup \/ Len(chat.participantIds) > 0

C17_DirectSendSelectsOwnPersona ==
  (UnpinnedSend /\ CalledChat.id # None /\ ~MultiParty(CalledChat)) =>
    /\ lastCall.outcome \in {"fetch", "nokey"}
    /\ lastCall.target = lastCall.chatId
    /\ lastCall.outcome = "fetch" =>
         \E j \in 1..Len(calls) : calls[j].chatId = lastCall.chatId /\ calls[j].target = lastCall.chatId

\* the assistants of the conversation a call was started for, as the call saw
\* it: its own persona, then its participants
CallAssistants(c) == <<c.chatId>> \o c.chatBase.participantIds

InSeq(x, q) == \E k \in 1..Len(q) : q[k] = x

C19_AuthFailureNotRetried ==
  (RestReplied /\ lastReply.status = 401) =>
    /\ lastReply.result = "auth"
    /\ CallEnded
    /\ netSent = 0
    /\ lastReply.call.sent = lastReply.call.retryCount + 1

\* a 401 that answered the retry after a 429
C19_Witness ==
  /\ RestReplied /\ lastReply.status = 401
  /\ lastReply.call.retryCount = 1 /\ lastReply.call.sent = 2
  /\ lastReply.result = "auth" /\ CallEnded

\* C20: a 429 on the first attempt of a REST call leads to exactly one retry,
\* a 429 on the retry ends the call with a provider error; a call sends at
\* most two requests and ends with the answer to its retry.
C20_OneRetryOn429 ==
  /\ \A j \in 1..Len(calls) :
        /\ calls[j].sent \in 1..2
        /\ calls[j].sent = calls[j].retryCount + 1
        /\ calls[j].phase = "sleep" => calls[j].retryCount = 0
  /\ (RestReplied /\ lastReply.status = 429 /\ lastReply.call.retryCount = 0) =>
        /\ lastReply.result = "retry"
        /\ CallSleeps
        /\ RepliedLog = lastReply.logBefore
  /\ (RestReplied /\ lastReply.status = 429 /\ lastReply.call.retryCount >= 1) =>
        /\ lastReply.result = "provider"
        /\ lastReply.call.sent = 2
  /\ (RestReplied /\ lastReply.call.retryCount >= 1) => (CallEnded /\ netSent = 0)
  /\ (RestReplied /\ lastReply.status # 429) => CallEnded

\* the retry of a rate-limited call was rate-limited again and the call ended
C20_Witness ==
  /\ RestReplied /\ lastReply.status = 429
  /\ lastReply.call.retryCount = 1 /\ lastReply.call.sent = 2
  /\ lastReply.result = "provider" /\ CallEnded

(***************************************************************************)
(* Properties of the prefix stripping (checked under SpecStrip).           *)
(***************************************************************************)
\* C27: the text of the assistant message never begins with a prefix of the
\* responder, neither "[Name]:" nor "Name:" nor the SOURCE tag of the name,
\* whatever text the provider returned.
C27_NoSelfPrefixLeft ==
  sp.pc = "done" =>
     \A k \in 1..Len(prefixesToStrip) : ~startsWith(sp.out, prefixesToStrip[k])

(***************************************************************************)
(* Claims about the auto-flow timer (win.timer: the timeout of the         *)
(* auto-flow effect is pending).                                           *)
(***************************************************************************)
\* a respond call for the open conversation is suspended in its await
ResponseInFlight == \E j \in 1..Len(calls) : calls[j].chatId = activeChatId

\* C21: no auto-flow timer is pending when no window is open, when auto-flow
\* is switched off, or while a response for the open conversation is in
\* flight; a call of the auto-flow is launched only by a timer that was
\* pending (the ref holds the one timer of the window, so that more than one
\* pending timer is a second, cancelled one).
C21_TimerCancelled ==
  /\ ~win.mounted => ~win.timer
  /\ (win.mounted /\ ~win.isAutoFlow) => ~win.timer
  /\ (win.mounted /\ ResponseInFlight) => ~win.timer
  /\ (CallMade /\ lastCall.via = "auto") => win.isAutoFlow

\* the open conversation has at least two assistants
TwoAssistants ==
  Len(Responders(ActiveChat(chats, draftSubChat, activeChatId), chats)) > 2

\* C22: the auto-flow schedules and launches turns only while it is enabled
\* and the conversation has at least two assistants: with fewer than two no
\* timer is pending and no auto-flow call is launched.
C22_AutoFlowNeedsTwoAssistants ==
  win.mounted =>
     /\ win.timer => (win.isAutoFlow /\ TwoAssistants)
     /\ (CallMade /\ lastCall.via = "auto") => TwoAssistants

\* C29: the rotation of the auto-flow makes progress whether responses
\* succeed or fail: a failing assistant does not keep the rotation on itself.
\* When the log an auto-flow turn starts from ends with the error entry of a
\* failed turn, the responder it pins is not the one the rotation gave for
\* the log without that entry, i.e. not the assistant that has just failed.
C29_FailureAdvancesRotation ==
  (CallMade /\ lastCall.via = "auto" /\ TwoAssistants
     /\ Len(lastCall.logBefore) > 0
     /\ lastCall.logBefore[Len(lastCall.logBefore)].isError) =>
    lastCall.specificAuthorId
       # NextResponder(Front(lastCall.logBefore), Responders(CalledChat, chats))

(***************************************************************************)
(* Properties of the conversation list.                                    *)
(***************************************************************************)
\* every conversation the application holds: the list and the branch draft
Conversations ==
  {chats[i] : i \in 1..Len(chats)} \cup (IF draftSubChat.id = None THEN {} ELSE {draftSubChat})

\* C23: whatever the user created, duplicated, branched, added or removed,
\* no conversation lists its own id among its participantIds
C23_NoSelfParticipant ==
  \A c \in Conversations : ~InSeq(c.id, c.participantIds)

\* a one-to-one conversation of the list got two participants, so the
\* add-participant sheet ran more than once for a conversation it could offer
C23_Witness ==
  \E i \in 1..Len(chats) :
    /\ ~chats[i].isGroup /\ ~chats[i].archived
    /\ Len(chats[i].participantIds) >= 2
    /\ C23_NoSelfParticipant

\* C24: every conversation of the list that has a parent has it in the list
C24_ParentInList ==
  \A i \in 1..Len(chats) :
    chats[i].parentId # None => Find(chats, chats[i].parentId).id # None

\* the parentId of the listed conversation id; None when it has none or is not listed
ParentId(cs, id) == IF Find(cs, id).id = None THEN None ELSE Find(cs, id).parentId

\* the ids reached from id by one to n + 1 parent links
RECURSIVE Ancestors(_, _, _)
Ancestors(cs, p, n) ==
  IF p = None THEN {}
  ELSE IF n = 0 THEN {p}
  ELSE {p} \cup Ancestors(cs, ParentId(cs, p), n - 1)

AncestorsOf(c) == Ancestors(chats, c.parentId, Len(chats))

\* C25: the parent links have no cycle: no conversation, listed or draft,
\* is reached from itself by following parentId
C25_ParentsAcyclic ==
  \A c \in Conversations : c.id \notin AncestorsOf(c)

\* a thread of a thread is in the list, with both its ancestors, next to a
\* created or duplicated conversation
C25_Witness ==
  /\ nIds > 0
  /\ \E i \in 1..Len(chats) :
       /\ Cardinality(AncestorsOf(chats[i])) >= 2
       /\ \A a \in AncestorsOf(chats[i]) : Find(chats, a).id # None
  /\ C25_ParentsAcyclic

\* the respond call that ended in this step was made for a conversation that
\* was gone when the answer came: deleted from the list, or a draft that was
\* discarded
AnsweredGone == Replied /\ CallEnded /\ ~lastReply.present

\* C30: the answer to a call whose conversation was deleted or discarded in
\* the meantime neither puts that conversation into the list nor opens it
C30_GoneStaysGone ==
  AnsweredGone =>
    /\ Find(chats, lastReply.call.chatId).id = None
    /\ activeChatId # lastReply.call.chatId
====
